---------------------------- MODULE Spec2Model ----------------------------
(***************************************************************************)
(* Model of elderly-care-backend/server.js: the device store kept in       *)
(* data/devices.json, the emergency log kept in data/emergencies.json, the *)
(* in-memory list activeEmergencies, and the socket.io fan-out.            *)
(*                                                                         *)
(* Every handler of server.js is a synchronous function (readFileSync,     *)
(* writeFileSync, no await, no callback), so Node's event loop runs it to  *)
(* completion: one handler is one action.  The file-system calls can fail; *)
(* the outcome of each call is an input of the action (rd, wr).            *)
(*                                                                         *)
(* Fields of the records that no handler reads and no property mentions    *)
(* (device.id, registeredAt, healthData, location.address, the message     *)
(* texts) are left out of the records.                                     *)
(***************************************************************************)
EXTENDS Integers, Sequences, FiniteSets, TLC

\* ------------------------------------------------------------------ bounds
MaxEmergencies == 2
MaxInbox == 3
\* File-system calls that fail in one run.
MaxFaults == 1

\* --------------------------------------------------------- program constants
OnlineWindowMinutes == 2

\* --------------------------------------------------------------- input sets
\* A field missing from a request body (JavaScript undefined).
UNDEF == "<undefined>"
\* JavaScript null in lastUpdate / resolvedAt; clock values are >= 0.
NULL == -1

DeviceIds == {"D1", "D2"}
\* The instants (whole seconds) at which the clock is read.
Instants == {0, 90, 120, 121}
\* The instants at which the clock is read while emergencies are handled.
EmergencyInstants == {90}
\* Both outcomes of a file-system call: TRUE it succeeds, FALSE it throws.
IOOutcomes == {TRUE, FALSE}

VARIABLES
    devicesFile,        \* data/devices.json: the sequence data.devices
    emergencyFile,      \* data/emergencies.json: the sequence data.emergencies
    activeEmergencies,  \* let activeEmergencies = []
    nextUuid,           \* the uuidv4() values handed out so far (all distinct)
    now,                \* the wall clock, in whole seconds
    inbox,              \* per client: connected?, and the events received since connecting
    req,                \* the handler that ran last
    res,                \* the response it sent
    emitted,            \* the io.emit broadcasts that handler made
    faults,             \* file-system calls that have failed so far
    calls               \* per in-flight HTTP request: how far its handler has got

vars == <<devicesFile, emergencyFile, activeEmergencies, nextUuid, now, inbox, req, res, emitted, faults,
          calls>>

\* ------------------------------------------------------------ JS helpers
\* Truthiness of a string-or-undefined request field.
Truthy(s) == s # UNDEF /\ s # ""

\* a || b on string-or-undefined operands.
Or(a, b) == IF Truthy(a) THEN a ELSE b

\* Mutant of FindDevice: the lookup ignores the deviceId and finds the first record.
FindDeviceAny(devices, deviceId) == IF Len(devices) > 0 THEN 1 ELSE 0

\* Array.prototype.findIndex over devices by deviceId; 0 stands for -1.
FindDevice(devices, deviceId) ==
    IF \E i \in 1..Len(devices) : devices[i].deviceId = deviceId
    THEN CHOOSE i \in 1..Len(devices) :
            /\ devices[i].deviceId = deviceId
            /\ \A j \in 1..(i-1) : devices[j].deviceId # deviceId
    ELSE 0

\* Array.prototype.splice(index, 1).
Splice(seq, index) == [i \in 1..(Len(seq)-1) |-> IF i < index THEN seq[i] ELSE seq[i+1]]

\* readData(): the parsed file, or { devices: [] } when the read throws.
ReadData(rd) == IF rd THEN devicesFile ELSE <<>>

\* Mutant of WithinWindow: the window includes its end (<= 2 minutes).
WithinWindowInclusive(lastUpdate, t) ==
    (t - lastUpdate) * 1000 <= OnlineWindowMinutes * 60 * 1000

\* diffMinutes < 2, with diffMinutes = (now - lastUpdate) / 1000 / 60 and both
\* times in whole seconds (so the difference in ms is a multiple of 1000).
WithinWindow(lastUpdate, t) == (t - lastUpdate) * 1000 < OnlineWindowMinutes * 60 * 1000

\* The recomputation List and Get apply to one device record.
Recompute(device, t) ==
    IF device.lastUpdate # NULL
    THEN [device EXCEPT !.isOnline = WithinWindow(device.lastUpdate, t)]
    ELSE device

\* ------------------------------------------------------- device handlers
\* Each handler is a function of the request, the data it read, the clock and
\* the outcome of its write; it yields the response and, when it called
\* writeData successfully, the new content of the file.  The validation exits
\* (400) come before readData; every other answer comes after it.
Reply(status, tried, wrote, data, devices) ==
    [status |-> status, success |-> (status = 200),
     tried |-> tried,    \* writeData was called
     wrote |-> wrote,    \* and returned true
     data |-> data, devices |-> devices]

\* Mutant of RegisterHandler: the existingDevice check is missing.
RegisterHandlerNoConflict(body, data, wr) ==
    IF ~Truthy(body.deviceId) \/ ~Truthy(body.deviceName)
    THEN Reply(400, FALSE, FALSE, data, <<>>)
    ELSE LET newDevice == [deviceId |-> body.deviceId,
                           deviceName |-> body.deviceName,
                           ownerName |-> Or(body.ownerName, "Adulto Mayor"),
                           ownerDisplayName |-> Or(body.ownerDisplayName,
                                                   Or(body.ownerName, "Adulto Mayor")),
                           lastUpdate |-> NULL,
                           isOnline |-> FALSE]
         IN  IF wr THEN Reply(200, TRUE, TRUE, Append(data, newDevice), <<newDevice>>)
                   ELSE Reply(500, TRUE, FALSE, data, <<>>)

RegisterHandler(body, data, wr) ==
    IF ~Truthy(body.deviceId) \/ ~Truthy(body.deviceName)
    THEN Reply(400, FALSE, FALSE, data, <<>>)
    ELSE IF FindDevice(data, body.deviceId) # 0
    THEN Reply(409, FALSE, FALSE, data, <<>>)
    ELSE LET newDevice == [deviceId |-> body.deviceId,
                           deviceName |-> body.deviceName,
                           ownerName |-> Or(body.ownerName, "Adulto Mayor"),
                           ownerDisplayName |-> Or(body.ownerDisplayName,
                                                   Or(body.ownerName, "Adulto Mayor")),
                           lastUpdate |-> NULL,
                           isOnline |-> FALSE]
             newData == Append(data, newDevice)
         IN  IF wr THEN Reply(200, TRUE, TRUE, newData, <<newDevice>>)
                   ELSE Reply(500, TRUE, FALSE, data, <<>>)

HealthHandler(body, data, t, wr) ==
    IF ~Truthy(body.deviceId)
    THEN Reply(400, FALSE, FALSE, data, <<>>)
    ELSE LET deviceIndex == FindDevice(data, body.deviceId) IN
         IF deviceIndex = 0
         THEN Reply(404, FALSE, FALSE, data, <<>>)
         ELSE LET newData == [data EXCEPT ![deviceIndex].lastUpdate = t,
                                          ![deviceIndex].isOnline = TRUE]
              IN  IF wr THEN Reply(200, TRUE, TRUE, newData, <<>>)
                        ELSE Reply(500, TRUE, FALSE, data, <<>>)

\* GET /api/devices: the write's result is ignored, the answer is always 200.
ListHandler(data, t, wr) ==
    LET newData == [i \in 1..Len(data) |-> Recompute(data[i], t)]
    IN  Reply(200, TRUE, wr, newData, newData)

GetHandler(deviceId, data, t) ==
    LET deviceIndex == FindDevice(data, deviceId) IN
    IF deviceIndex = 0
    THEN Reply(404, FALSE, FALSE, data, <<>>)
    ELSE Reply(200, FALSE, FALSE, data, <<Recompute(data[deviceIndex], t)>>)

DeleteHandler(deviceId, data, wr) ==
    LET deviceIndex == FindDevice(data, deviceId) IN
    IF deviceIndex = 0
    THEN Reply(404, FALSE, FALSE, data, <<>>)
    ELSE IF wr THEN Reply(200, TRUE, TRUE, Splice(data, deviceIndex), <<>>)
               ELSE Reply(500, TRUE, FALSE, data, <<>>)

PutHandler(deviceId, body, data, wr) ==
    LET deviceIndex == FindDevice(data, deviceId) IN
    IF deviceIndex = 0
    THEN Reply(404, FALSE, FALSE, data, <<>>)
    ELSE LET d0 == data[deviceIndex]
             d1 == IF Truthy(body.deviceName)
                   THEN [d0 EXCEPT !.deviceName = body.deviceName] ELSE d0
             d2 == IF Truthy(body.ownerName)
                   THEN [d1 EXCEPT !.ownerName = body.ownerName] ELSE d1
             newData == [data EXCEPT ![deviceIndex] = d2]
         IN  IF wr THEN Reply(200, TRUE, TRUE, newData, <<d2>>)
                   ELSE Reply(500, TRUE, FALSE, data, <<>>)


\* ----------------------------------------------------- emergency helpers
\* Mutant of ReadEmergencies: the log is never read back, every write starts from [].
ReadEmergenciesEmpty(rd) == <<>>

\* readEmergencies(): the parsed file, or { emergencies: [] } when the read throws.
ReadEmergencies(rd) == IF rd THEN emergencyFile ELSE <<>>

\* Array.prototype.findIndex over emergencies by id; 0 stands for -1.
FindEmergency(emergencies, id) ==
    IF \E i \in 1..Len(emergencies) : emergencies[i].id = id
    THEN CHOOSE i \in 1..Len(emergencies) :
            /\ emergencies[i].id = id
            /\ \A j \in 1..(i-1) : emergencies[j].id # id
    ELSE 0

\* An optional number of a request body is <<>> (absent) or <<v>>.
\* !x on it: undefined and 0 are both falsy.
NumTruthy(x) == x # <<>> /\ x[1] # 0

\* parseFloat of a JSON number: the number itself.
ParseFloat(x) == x[1]

\* The validation of POST /api/sos: TRUE when the body passes both checks.
SosValid(body) ==
    /\ Truthy(body.deviceId)
    /\ body.location.given
    /\ NumTruthy(body.location.latitude)
    /\ NumTruthy(body.location.longitude)

\* The emergency record POST /api/sos builds for a device record.
NewEmergency(body, device, id, t) ==
    [id |-> id,
     deviceId |-> body.deviceId,
     ownerDisplayName |-> Or(body.ownerDisplayName,
                             Or(device.ownerDisplayName, Or(device.ownerName, "Usuario"))),
     deviceName |-> device.deviceName,
     latitude |-> ParseFloat(body.location.latitude),
     longitude |-> ParseFloat(body.location.longitude),
     timestamp |-> t,
     status |-> "active",
     resolvedAt |-> NULL]

\* Mutant of MarkResolved: the status is set and resolvedAt is not stamped.
MarkResolvedNoStamp(emergencies, index, t) ==
    [emergencies EXCEPT ![index].status = "resolved"]

\* status = 'resolved'; resolvedAt = new Date().toISOString() on entry index.
MarkResolved(emergencies, index, t) ==
    [emergencies EXCEPT ![index].status = "resolved", ![index].resolvedAt = t]

\* ------------------------------------------------------------ fan-out
Clients == {"c1", "c2"}

\* Mutant of Broadcast: only the first client is sent the event.
BroadcastToOne(boxes, event) ==
    [c \in Clients |-> IF boxes[c].connected /\ c = "c1"
                       THEN [boxes[c] EXCEPT !.events = Append(@, event)]
                       ELSE boxes[c]]

\* io.emit(event): every connected socket receives the event, in emission order.
Broadcast(boxes, event) ==
    [c \in Clients |-> IF boxes[c].connected
                       THEN [boxes[c] EXCEPT !.events = Append(@, event)]
                       ELSE boxes[c]]

\* Exploration bound: a broadcast is explored while every connected inbox has room.
InboxRoom == \A c \in Clients : inbox[c].connected => Len(inbox[c].events) < MaxInbox

Response(status, payload) == [status |-> status, success |-> (status = 200), payload |-> payload]

\* ------------------------------------------------------------------ state
\* Two HTTP requests in flight at once.
Slots == {"r1", "r2"}
Idle == [stage |-> "idle"]

Init ==
    /\ devicesFile = <<>>
    /\ emergencyFile = <<>>
    /\ activeEmergencies = <<>>
    /\ nextUuid = 0
    /\ now = 0
    /\ inbox = [c \in Clients |-> [connected |-> FALSE, events |-> <<>>]]
    /\ req = [op |-> "boot"]
    /\ res = Response(200, <<>>)
    /\ emitted = <<>>
    /\ faults = 0
    /\ calls = [r \in Slots |-> Idle]

\* Exploration bound on the failures injected: the outcomes ios are drawn while
\* the budget lasts.
Failed(ios) == Cardinality({i \in 1..Len(ios) : ~ios[i]})
Inject(ios) ==
    /\ faults + Failed(ios) <= MaxFaults
    /\ faults' = faults + Failed(ios)

\* Only a call that is made can fail: called[i] tells whether the handler made
\* the i-th call.
OnlyCalled(ios, called) == \A i \in 1..Len(ios) : ~called[i] => ios[i]

all_emergency == <<emergencyFile, activeEmergencies, nextUuid, inbox>>

\* What a device handler's outcome does to the file and the response.
DeviceStep(out, rd, wr) ==
    /\ OnlyCalled(<<rd, wr>>, <<out.status # 400, out.tried>>)
    /\ Inject(<<rd, wr>>)
    /\ devicesFile' = IF out.wrote THEN out.data ELSE devicesFile
    /\ res' = Response(out.status, out.devices)
    /\ emitted' = <<>>
    /\ UNCHANGED <<all_emergency, now, calls>>

\* ---------------------------------------------------------------- actions
Register(body, rd, wr) ==
    /\ req' = [op |-> "register"]
    /\ DeviceStep(RegisterHandler(body, ReadData(rd), wr), rd, wr)

UpdateTelemetry(body, rd, wr) ==
    /\ req' = [op |-> "health"]
    /\ DeviceStep(HealthHandler(body, ReadData(rd), now, wr), rd, wr)

List(rd, wr) ==
    /\ req' = [op |-> "list"]
    /\ DeviceStep(ListHandler(ReadData(rd), now, wr), rd, wr)

Get(deviceId, rd) ==
    /\ req' = [op |-> "get"]
    /\ DeviceStep(GetHandler(deviceId, ReadData(rd), now), rd, TRUE)

\* Mutant of Delete: deleting a device also drops its emergencies from the list.
DeleteCascade(deviceId, rd, wr) ==
    LET out == DeleteHandler(deviceId, ReadData(rd), wr)
        kept == SelectSeq(activeEmergencies, LAMBDA e : e.deviceId # deviceId)
    IN
    /\ req' = [op |-> "delete"]
    /\ OnlyCalled(<<rd, wr>>, <<TRUE, out.tried>>)
    /\ Inject(<<rd, wr>>)
    /\ devicesFile' = IF out.wrote THEN out.data ELSE devicesFile
    /\ res' = Response(out.status, out.devices)
    /\ emitted' = <<>>
    /\ activeEmergencies' = IF out.wrote THEN kept ELSE activeEmergencies
    /\ UNCHANGED <<emergencyFile, nextUuid, inbox, now, calls>>

Delete(deviceId, rd, wr) ==
    /\ req' = [op |-> "delete"]
    /\ DeviceStep(DeleteHandler(deviceId, ReadData(rd), wr), rd, wr)

Rename(deviceId, body, rd, wr) ==
    /\ req' = [op |-> "put"]
    /\ DeviceStep(PutHandler(deviceId, body, ReadData(rd), wr), rd, wr)

\* POST /api/sos
Raise(body, rdDev, rdEm, wrEm) ==
    LET data == ReadData(rdDev)
        deviceIndex == IF Truthy(body.deviceId) THEN FindDevice(data, body.deviceId) ELSE 0
    IN
    /\ req' = [op |-> "sos"]
    /\ Inject(<<rdDev, rdEm, wrEm>>)
    /\ OnlyCalled(<<rdDev, rdEm, wrEm>>,
                  <<SosValid(body), SosValid(body) /\ deviceIndex # 0,
                    SosValid(body) /\ deviceIndex # 0>>)
    /\ IF ~SosValid(body)
       THEN /\ res' = Response(400, <<>>)
            /\ emitted' = <<>>
            /\ UNCHANGED <<devicesFile, all_emergency, now, calls>>
       ELSE IF deviceIndex = 0
       THEN /\ res' = Response(404, <<>>)
            /\ emitted' = <<>>
            /\ UNCHANGED <<devicesFile, all_emergency, now, calls>>
       ELSE LET emergency == NewEmergency(body, data[deviceIndex], nextUuid + 1, now)
                emergencyData == Append(ReadEmergencies(rdEm), emergency)
                event == [type |-> "new_emergency", emergency |-> emergency]
            IN  /\ nextUuid < MaxEmergencies
                /\ InboxRoom
                /\ nextUuid' = nextUuid + 1
                /\ emergencyFile' = IF wrEm THEN emergencyData ELSE emergencyFile
                /\ activeEmergencies' = Append(activeEmergencies, emergency)
                /\ inbox' = Broadcast(inbox, event)
                /\ emitted' = <<event>>
                /\ res' = Response(200, <<emergency>>)
                /\ UNCHANGED <<devicesFile, now, calls>>

\* GET /api/emergencies
ListActive ==
    /\ req' = [op |-> "emergencies"]
    /\ res' = Response(200, activeEmergencies)
    /\ emitted' = <<>>
    /\ UNCHANGED <<devicesFile, all_emergency, now, faults, calls>>

\* POST /api/emergencies/:id/resolve
Resolve(id, rdEm, wrEm) ==
    LET index == FindEmergency(activeEmergencies, id) IN
    /\ req' = [op |-> "resolve"]
    /\ Inject(<<rdEm, wrEm>>)
    /\ OnlyCalled(<<rdEm, wrEm>>,
                  <<index # 0, index # 0 /\ FindEmergency(ReadEmergencies(rdEm), id) # 0>>)
    /\ IF index = 0
       THEN /\ res' = Response(404, <<>>)
            /\ emitted' = <<>>
            /\ UNCHANGED <<devicesFile, all_emergency, now, calls>>
       ELSE LET emergencyData == ReadEmergencies(rdEm)
                fileIndex == FindEmergency(emergencyData, id)
                event == [type |-> "emergency_resolved", id |-> id]
            IN  /\ InboxRoom
                /\ activeEmergencies' = MarkResolved(activeEmergencies, index, now)
                /\ emergencyFile' = IF fileIndex # 0 /\ wrEm
                                    THEN MarkResolved(emergencyData, fileIndex, now)
                                    ELSE emergencyFile
                /\ inbox' = Broadcast(inbox, event)
                /\ emitted' = <<event>>
                /\ res' = Response(200, <<>>)
                /\ UNCHANGED <<devicesFile, nextUuid, now, calls>>

\* io.on('connection'): the new socket is sent the current list.
Connect(c) ==
    /\ ~inbox[c].connected
    /\ inbox' = [inbox EXCEPT ![c] =
                   [connected |-> TRUE,
                    events |-> <<[type |-> "active_emergencies", list |-> activeEmergencies]>>]]
    /\ req' = [op |-> "connect"]
    /\ res' = Response(200, <<>>)
    /\ emitted' = <<>>
    /\ UNCHANGED <<devicesFile, emergencyFile, activeEmergencies, nextUuid, now, faults, calls>>

\* socket 'disconnect': the socket receives nothing more.
Disconnect(c) ==
    /\ inbox[c].connected
    /\ inbox' = [inbox EXCEPT ![c] = [connected |-> FALSE, events |-> <<>>]]
    /\ req' = [op |-> "disconnect"]
    /\ res' = Response(200, <<>>)
    /\ emitted' = <<>>
    /\ UNCHANGED <<devicesFile, emergencyFile, activeEmergencies, nextUuid, now, faults, calls>>

\* The wall clock advances (new Date() is read by the handlers).
Tick(t) ==
    /\ t > now
    /\ now' = t
    /\ req' = [op |-> "tick"]
    /\ res' = Response(200, <<>>)
    /\ emitted' = <<>>
    /\ UNCHANGED <<devicesFile, all_emergency, faults, calls>>

\* The process restarts: the module's top level runs again.  activeEmergencies
\* is [] again, the data files exist and are kept, every socket is gone.
Restart ==
    /\ activeEmergencies' = <<>>
    /\ inbox' = [c \in Clients |-> [connected |-> FALSE, events |-> <<>>]]
    /\ req' = [op |-> "boot"]
    /\ res' = Response(200, <<>>)
    /\ emitted' = <<>>
    /\ UNCHANGED <<devicesFile, emergencyFile, nextUuid, now, faults, calls>>

\* ------------------------------------------------ the handlers step by step
\* The same Register and UpdateTelemetry handlers with the read of the device
\* file and the write of it as separate steps, for requests that are in flight
\* together.  A request is queued when it arrives; the event loop calls its
\* handler (Begin: up to readData), and the handler returns (Finish: from
\* readData's result to the response).

\* Mutant of LoopFree: a handler may be called while another is between its
\* read and its write.
LoopAlwaysFree == TRUE

\* The handlers are synchronous functions: while one is between its readFileSync
\* and its writeFileSync the single JavaScript thread is inside it, and the event
\* loop calls no other handler.
LoopFree == \A r \in Slots : calls[r].stage # "read"

Arrive(r, kind, body) ==
    /\ calls[r].stage \in {"idle", "done"}
    /\ calls' = [calls EXCEPT ![r] = [stage |-> "queued", kind |-> kind, body |-> body]]
    /\ UNCHANGED <<devicesFile, all_emergency, now, req, res, emitted, faults>>

Begin(r) ==
    /\ calls[r].stage = "queued"
    /\ LoopFree
    /\ calls' = [calls EXCEPT ![r] =
                    [stage |-> "read", kind |-> calls[r].kind, body |-> calls[r].body,
                     data |-> ReadData(TRUE),
                     \* for the properties: another request was waiting meanwhile
                     overlapped |-> \E o \in Slots \ {r} : calls[o].stage = "queued"]]
    /\ UNCHANGED <<devicesFile, all_emergency, now, req, res, emitted, faults>>

Finish(r) ==
    /\ calls[r].stage = "read"
    /\ LET c == calls[r]
           out == IF c.kind = "register"
                  THEN RegisterHandler(c.body, c.data, TRUE)
                  ELSE HealthHandler(c.body, c.data, now, TRUE)
       IN  /\ devicesFile' = IF out.wrote THEN out.data ELSE devicesFile
           /\ calls' = [calls EXCEPT ![r] = [stage |-> "done", kind |-> c.kind,
                                             body |-> c.body, status |-> out.status,
                                             overlapped |-> c.overlapped]]
    /\ UNCHANGED <<all_emergency, now, req, res, emitted, faults>>

\* ------------------------------------------------------------ request sets
\* Request bodies: the complete ones, and one for each way a required field is missing.
RegisterBodies ==
    {[deviceId |-> d, deviceName |-> "N1", ownerName |-> UNDEF, ownerDisplayName |-> UNDEF]
        : d \in DeviceIds}
    \cup {[deviceId |-> UNDEF, deviceName |-> "N1", ownerName |-> UNDEF, ownerDisplayName |-> UNDEF],
          [deviceId |-> "D2", deviceName |-> UNDEF, ownerName |-> UNDEF, ownerDisplayName |-> UNDEF]}
HealthBodies == [deviceId : DeviceIds \cup {UNDEF}]
PutBodies == {[deviceName |-> "N2", ownerName |-> UNDEF],
              [deviceName |-> UNDEF, ownerName |-> UNDEF]}
Location(lat, lon) == [given |-> TRUE, latitude |-> lat, longitude |-> lon]
\* Locations that give both coordinates, including a 0 for either.
FullLocations ==
    {Location(<<10>>, <<20>>), Location(<<0>>, <<20>>), Location(<<10>>, <<0>>)}
\* Locations with a coordinate missing, and the missing location.
PartLocations ==
    {Location(<<>>, <<20>>), Location(<<10>>, <<>>),
     [given |-> FALSE, latitude |-> <<>>, longitude |-> <<>>]}
Sos(deviceId, location) ==
    [deviceId |-> deviceId, ownerDisplayName |-> UNDEF, location |-> location]
SosBodies ==
    {Sos(d, Location(<<10>>, <<20>>)) : d \in DeviceIds \cup {UNDEF}}
    \cup {Sos("D1", l) : l \in FullLocations \cup PartLocations}
EmergencyIds == 1..(MaxEmergencies + 1)

\* The device store's handlers and the clock they read.
DeviceNext(IO) ==
    \/ \E body \in RegisterBodies, rd \in IO, wr \in IO : Register(body, rd, wr)
    \/ \E body \in HealthBodies, rd \in IO, wr \in IO : UpdateTelemetry(body, rd, wr)
    \/ \E rd \in IO, wr \in IO : List(rd, wr)
    \/ \E deviceId \in DeviceIds, rd \in IO : Get(deviceId, rd)
    \/ \E deviceId \in DeviceIds, rd \in IO, wr \in IO : Delete(deviceId, rd, wr)
    \/ \E deviceId \in DeviceIds, body \in PutBodies, rd \in IO, wr \in IO :
            Rename(deviceId, body, rd, wr)
    \/ \E t \in Instants : Tick(t)

\* The emergency store's handlers, and the two device handlers that decide
\* which deviceIds exist.
EmergencyNext(IO) ==
    \/ \E body \in RegisterBodies, rd \in IO, wr \in IO : Register(body, rd, wr)
    \/ \E deviceId \in DeviceIds, rd \in IO, wr \in IO : Delete(deviceId, rd, wr)
    \/ \E body \in SosBodies, rdDev \in IO, rdEm \in IO, wrEm \in IO :
            Raise(body, rdDev, rdEm, wrEm)
    \/ ListActive
    \/ \E id \in EmergencyIds, rdEm \in IO, wrEm \in IO : Resolve(id, rdEm, wrEm)
    \/ \E t \in EmergencyInstants : Tick(t)
    \/ Restart

\* The sockets.
SocketNext ==
    \/ \E c \in Clients : Connect(c)
    \/ \E c \in Clients : Disconnect(c)

\* The broadcasting handlers with their subscribers.
FanoutNext(IO) ==
    \/ \E body \in RegisterBodies, rd \in IO, wr \in IO : Register(body, rd, wr)
    \/ \E body \in SosBodies, rdDev \in IO, rdEm \in IO, wrEm \in IO :
            Raise(body, rdDev, rdEm, wrEm)
    \/ \E id \in EmergencyIds, rdEm \in IO, wrEm \in IO : Resolve(id, rdEm, wrEm)
    \/ Restart
    \/ SocketNext

\* Requests in flight together, handler steps scheduled by the event loop.
LoopRequests ==
    {<<"register", body>> : body \in {b \in RegisterBodies : Truthy(b.deviceId) /\ Truthy(b.deviceName)}}
    \cup {<<"health", body>> : body \in {b \in HealthBodies : Truthy(b.deviceId)}}
LoopNext ==
    \/ \E r \in Slots, q \in LoopRequests : Arrive(r, q[1], q[2])
    \/ \E r \in Slots : Begin(r)
    \/ \E r \in Slots : Finish(r)

Next == DeviceNext(IOOutcomes) \/ EmergencyNext(IOOutcomes) \/ SocketNext \/ LoopNext

\* The whole server.
Spec == Init /\ [][Next]_vars
\* The device store: its handlers never read the emergency store or the sockets.
SpecDevices == Init /\ [][DeviceNext(IOOutcomes)]_vars
\* The emergency store, with file-system failures and no subscriber.
SpecEmergencies == Init /\ [][EmergencyNext(IOOutcomes)]_vars
\* The emergency store and its subscribers.
SpecFanout == Init /\ [][FanoutNext(IOOutcomes)]_vars
\* The emergency store when no file-system call fails.
SpecNoFail == Init /\ [][EmergencyNext({TRUE})]_vars
\* Register and UpdateTelemetry requests in flight together.
SpecLoop == Init /\ [][LoopNext]_vars

\* ---------------------------------------------------------------- properties
HasDevice(devices, deviceId) == \E i \in 1..Len(devices) : devices[i].deviceId = deviceId
UniqueDeviceIds(devices) ==
    \A i, j \in 1..Len(devices) : i # j => devices[i].deviceId # devices[j].deviceId
Range(seq) == {seq[i] : i \in 1..Len(seq)}

\* ---------------------------------------------------------------------- C1
\* C1 (as stated): no two records of the device store share a deviceId, and a
\* Register (with its deviceName given) whose deviceId is already in the store
\* answers 409 and leaves the store as it was.
C1_ConflictAlways ==
    [][/\ UniqueDeviceIds(devicesFile')
       /\ req'.op = "register" =>
          \A body \in RegisterBodies, rd \in IOOutcomes, wr \in IOOutcomes :
            (/\ Register(body, rd, wr)
             /\ Truthy(body.deviceName)
             /\ HasDevice(devicesFile, body.deviceId))
                => (res'.status = 409 /\ devicesFile' = devicesFile)]_vars

\* C1 (amended): no two records of the device store ever share a deviceId; a
\* Register (with its deviceName given) whose deviceId is already in the store answers 409 and leaves the
\* store as it was whenever its read of the device file succeeds; when the read
\* fails the handler sees an empty store and the store becomes the new record alone.
C1_UniqueAndConflict ==
    /\ UniqueDeviceIds(devicesFile)
    /\ [][/\ UniqueDeviceIds(devicesFile')
          /\ req'.op = "register" =>
             \A body \in RegisterBodies, rd \in IOOutcomes, wr \in IOOutcomes :
               (/\ Register(body, rd, wr)
                /\ Truthy(body.deviceName)
                /\ HasDevice(devicesFile, body.deviceId))
                   => IF rd
                      THEN res'.status = 409 /\ devicesFile' = devicesFile
                      ELSE \/ res'.status = 500 /\ devicesFile' = devicesFile
                           \/ /\ res'.status = 200
                              /\ Len(devicesFile') = 1
                              /\ devicesFile'[1].deviceId = body.deviceId]_vars

\* A second Register of a stored deviceId was answered 409 with two devices stored.
C1_Witness ==
    /\ req.op = "register"
    /\ res.status = 409
    /\ Len(devicesFile) = 2

\* ---------------------------------------------------------------------- C6
\* C6: every device record List or Get returns at time now has
\* isOnline = (lastUpdate is not null and now - lastUpdate < 120 seconds).
C6_IsOnlineOnRead ==
    (req.op \in {"list", "get"} /\ res.status = 200)
        => \A i \in 1..Len(res.payload) :
              res.payload[i].isOnline
                 = (res.payload[i].lastUpdate # NULL /\ now - res.payload[i].lastUpdate < 120)

\* List at 120 s returned a device last updated at 0 s (offline: exactly 120 s),
\* and one last updated at 90 s (online).
C6_Witness ==
    /\ req.op = "list"
    /\ now = 120
    /\ \E i, j \in 1..Len(res.payload) :
          /\ res.payload[i].lastUpdate = 0
          /\ ~res.payload[i].isOnline
          /\ res.payload[j].lastUpdate = 90
          /\ res.payload[j].isOnline

\* ---------------------------------------------------------------------- C2
\* C2: an emergency record is only ever created for a deviceId that is in the
\* device store at that moment; a Raise for a deviceId that is not in the store
\* fails (404 when the request passes validation, 400 when it does not), adds
\* nothing to the log or to the in-memory list and broadcasts nothing.
C2_OnlyForRegistered ==
    [][/\ req'.op = "sos" =>
          \A rdDev \in IOOutcomes, rdEm \in IOOutcomes, wrEm \in IOOutcomes :
          faults' = faults + Failed(<<rdDev, rdEm, wrEm>>) =>
          \A body \in SosBodies :
            (~HasDevice(devicesFile, body.deviceId) /\ Raise(body, rdDev, rdEm, wrEm))
                => /\ res'.status = IF SosValid(body) THEN 404 ELSE 400
                   /\ ~res'.success
                   /\ emergencyFile' = emergencyFile
                   /\ activeEmergencies' = activeEmergencies
                   /\ emitted' = <<>>
       /\ Len(activeEmergencies') > Len(activeEmergencies)
            => HasDevice(devicesFile, activeEmergencies'[Len(activeEmergencies')].deviceId)
       /\ \A e \in Range(emergencyFile') \ Range(emergencyFile) :
            e.status = "active" => HasDevice(devicesFile, e.deviceId)]_vars

\* A Raise was answered 404 while the store held a device, but not the one asked for,
\* and an earlier emergency exists.
C2_Witness ==
    /\ req.op = "sos"
    /\ res.status = 404
    /\ Len(devicesFile) = 1
    /\ Len(activeEmergencies) = 1
    /\ activeEmergencies[1].deviceId # devicesFile[1].deviceId

\* ---------------------------------------------------------------------- C3
\* C3: a Resolve of an id in the in-memory list leaves that emergency resolved
\* with a non-null resolvedAt and makes exactly one emergency_resolved broadcast
\* carrying the id, which every connected subscriber receives; a Resolve of an id
\* not in the list answers 404, changes no emergency and broadcasts nothing.
C3_Resolve ==
    [][req'.op = "resolve" =>
       \A id \in EmergencyIds, rdEm \in IOOutcomes, wrEm \in IOOutcomes :
          Resolve(id, rdEm, wrEm) =>
            LET index == FindEmergency(activeEmergencies, id) IN
            IF index # 0
            THEN /\ res'.status = 200
                 /\ Len(activeEmergencies') = Len(activeEmergencies)
                 /\ activeEmergencies'[index].id = id
                 /\ activeEmergencies'[index].status = "resolved"
                 /\ activeEmergencies'[index].resolvedAt # NULL
                 /\ \A k \in 1..Len(activeEmergencies) :
                        k # index => activeEmergencies'[k] = activeEmergencies[k]
                 /\ emitted' = <<[type |-> "emergency_resolved", id |-> id]>>
                 /\ \A c \in Clients : inbox[c].connected =>
                        inbox'[c].events = Append(inbox[c].events, emitted'[1])
            ELSE /\ res'.status = 404
                 /\ activeEmergencies' = activeEmergencies
                 /\ emergencyFile' = emergencyFile
                 /\ emitted' = <<>>
                 /\ inbox' = inbox]_vars

\* A Resolve succeeded on the second of two emergencies while a subscriber listened.
C3_Witness ==
    /\ req.op = "resolve"
    /\ res.status = 200
    /\ Len(activeEmergencies) = 2
    /\ activeEmergencies[1].status = "active"
    /\ activeEmergencies[2].status = "resolved"
    /\ emitted = <<[type |-> "emergency_resolved", id |-> activeEmergencies[2].id]>>
    /\ \E c \in Clients : inbox[c].connected

\* ---------------------------------------------------------------------- C5
\* C5: Delete of a device leaves the persisted emergency log and the in-memory
\* list exactly as they were.
C5_DeleteKeepsEmergencies ==
    [][req'.op = "delete" =>
       \A deviceId \in DeviceIds, rd \in IOOutcomes, wr \in IOOutcomes :
          Delete(deviceId, rd, wr) =>
            /\ emergencyFile' = emergencyFile
            /\ activeEmergencies' = activeEmergencies]_vars

\* A Delete succeeded and an emergency raised for the deleted device is still
\* in the log and in the list.
C5_Witness ==
    /\ req.op = "delete"
    /\ res.status = 200
    /\ \E e \in Range(activeEmergencies) :
          /\ ~HasDevice(devicesFile, e.deviceId)
          /\ e \in Range(emergencyFile)

\* ---------------------------------------------------------------------- C7
\* C7: a mutating handler whose write to its backing file fails answers 500
\* with success:false.
C7_WriteFailureIs500 ==
    [][/\ req'.op = "register" =>
          \A body \in RegisterBodies, rd \in IOOutcomes :
            (/\ Register(body, rd, FALSE)
             /\ Truthy(body.deviceId) /\ Truthy(body.deviceName)
             /\ ~HasDevice(ReadData(rd), body.deviceId))
                => (res'.status = 500 /\ ~res'.success)
       /\ req'.op = "delete" =>
          \A deviceId \in DeviceIds, rd \in IOOutcomes :
            (Delete(deviceId, rd, FALSE) /\ HasDevice(ReadData(rd), deviceId))
                => (res'.status = 500 /\ ~res'.success)
       /\ req'.op = "sos" =>
          \A body \in SosBodies, rdDev \in IOOutcomes, rdEm \in IOOutcomes :
            (/\ Raise(body, rdDev, rdEm, FALSE)
             /\ SosValid(body)
             /\ HasDevice(ReadData(rdDev), body.deviceId))
                => (res'.status = 500 /\ ~res'.success)
       /\ req'.op = "resolve" =>
          \A id \in EmergencyIds, rdEm \in IOOutcomes :
            (/\ Resolve(id, rdEm, FALSE)
             /\ FindEmergency(activeEmergencies, id) # 0
             /\ FindEmergency(ReadEmergencies(rdEm), id) # 0)
                => (res'.status = 500 /\ ~res'.success)]_vars

\* ---------------------------------------------------------------------- C9
\* C9: a Raise for a registered deviceId whose location gives both latitude and
\* longitude (any number, 0 included) creates an active emergency with those
\* coordinates and broadcasts one new_emergency carrying them.
C9_RaiseAcceptsAnyNumber ==
    [][req'.op = "sos" =>
       \A body \in SosBodies, rdEm \in IOOutcomes, wrEm \in IOOutcomes :
          (/\ Raise(body, TRUE, rdEm, wrEm)
           /\ Truthy(body.deviceId)
           /\ HasDevice(devicesFile, body.deviceId)
           /\ body.location.given
           /\ body.location.latitude # <<>>
           /\ body.location.longitude # <<>>)
              => /\ res'.status = 200
                 /\ Len(activeEmergencies') = Len(activeEmergencies) + 1
                 /\ LET e == activeEmergencies'[Len(activeEmergencies')] IN
                      /\ e.status = "active"
                      /\ e.resolvedAt = NULL
                      /\ e.latitude = body.location.latitude[1]
                      /\ e.longitude = body.location.longitude[1]
                      /\ emitted' = <<[type |-> "new_emergency", emergency |-> e]>>]_vars

\* --------------------------------------------------------------------- C10
InLog(e) == {j \in 1..Len(emergencyFile) : emergencyFile[j].id = e.id}
Agree ==
    \A i \in 1..Len(activeEmergencies) :
        /\ Cardinality(InLog(activeEmergencies[i])) = 1
        /\ \A j \in InLog(activeEmergencies[i]) :
              emergencyFile[j].status = activeEmergencies[i].status
Ids(seq) == [i \in 1..Len(seq) |-> seq[i].id]

\* C10: when no file read or write fails, every emergency of the in-memory list
\* has exactly one entry of the same id in the log, with the same status, and no
\* handler removes an entry from the list or from the log.
C10_ListAndLogAgree ==
    /\ Agree
    /\ [][/\ Agree'
          /\ SubSeq(Ids(emergencyFile'), 1, Len(emergencyFile)) = Ids(emergencyFile)
          /\ req'.op # "boot" =>
                SubSeq(Ids(activeEmergencies'), 1, Len(activeEmergencies))
                    = Ids(activeEmergencies)]_vars

\* Two emergencies were raised and the first one resolved, in the list and in the log.
C10_Witness ==
    /\ Len(activeEmergencies) = 2
    /\ Len(emergencyFile) = 2
    /\ activeEmergencies[1].status = "resolved"
    /\ emergencyFile[1].status = "resolved"
    /\ activeEmergencies[2].status = "active"

\* ---------------------------------------------------------------------- C4
\* What a subscriber keeps of an emergency: its id and its status.
Project(list) == [i \in 1..Len(list) |-> [id |-> list[i].id, status |-> list[i].status]]

\* The subscriber's list after one more event: replaced by the snapshot, extended
\* on new_emergency, marked on emergency_resolved.
ApplyEvent(list, event) ==
    CASE event.type = "active_emergencies" -> Project(event.list)
      [] event.type = "new_emergency" -> Append(list, Project(<<event.emergency>>)[1])
      [] event.type = "emergency_resolved" ->
            [i \in 1..Len(list) |-> IF list[i].id = event.id
                                    THEN [list[i] EXCEPT !.status = "resolved"]
                                    ELSE list[i]]

RECURSIVE Rebuild(_)
Rebuild(events) ==
    IF events = <<>> THEN <<>>
    ELSE ApplyEvent(Rebuild(SubSeq(events, 1, Len(events) - 1)), events[Len(events)])

\* C4: a connected subscriber was sent the snapshot first, and the list it
\* rebuilds from the snapshot and the events received since equals the server's
\* in-memory list, in ids and statuses, after every operation.
C4_SubscriberAgrees ==
    \A c \in Clients :
        inbox[c].connected =>
            /\ inbox[c].events # <<>>
            /\ inbox[c].events[1].type = "active_emergencies"
            /\ Rebuild(inbox[c].events) = Project(activeEmergencies)

\* A subscriber connected after an emergency had been raised, then received a
\* new_emergency and an emergency_resolved.
C4_Witness ==
    \E c \in Clients :
        /\ inbox[c].connected
        /\ Len(inbox[c].events) = 3
        /\ Len(inbox[c].events[1].list) = 1
        /\ inbox[c].events[2].type = "new_emergency"
        /\ inbox[c].events[3].type = "emergency_resolved"

\* ---------------------------------------------------------------------- C8
\* C8 (as stated): requests are not serialized: while one handler is between
\* its read of the device file and its write, the handler of another waiting
\* request can start.
C8_CanInterleave ==
    \A r1 \in Slots, r2 \in Slots :
        (calls[r1].stage = "read" /\ calls[r2].stage = "queued") => ENABLED Begin(r2)

Answered(r) == calls[r].stage = "done" /\ calls[r].status = 200

\* C8 (amended): the handlers run to completion one at a time: at most one is
\* between its read and its write, and (no file-system call failing) the device
\* file holds the effect of every Register and UpdateTelemetry that answered
\* success, also when the requests were in flight together.
C8_NoLostUpdate ==
    /\ Cardinality({r \in Slots : calls[r].stage = "read"}) <= 1
    /\ \A r \in Slots :
          Answered(r) =>
            /\ HasDevice(devicesFile, calls[r].body.deviceId)
            /\ calls[r].kind = "health" =>
                  devicesFile[FindDevice(devicesFile, calls[r].body.deviceId)].lastUpdate # NULL

\* Two Register calls for different deviceIds, in flight together, both answered success.
C8_Witness ==
    /\ Answered("r1") /\ Answered("r2")
    /\ calls["r1"].kind = "register" /\ calls["r2"].kind = "register"
    /\ calls["r1"].body.deviceId # calls["r2"].body.deviceId
    /\ calls["r1"].overlapped

=============================================================================
